---- MODULE Spec2Model ----
(***************************************************************************)
(* OpusPlayer (src/ts/audio/opus-player.ts): a jitter buffer and playback  *)
(* scheduler.  feed() decodes one packet, interleaves the decoded planar   *)
(* block and appends it to the backlog `samples`; a recurring timer calls  *)
(* flush(), which carves the complete frames out of the backlog, schedules *)
(* them on the audio sink at the virtual clock `startTime` and advances    *)
(* that clock by the buffer's duration; destroy() tears the player down.   *)
(*                                                                         *)
(* Time is counted in units of 1/TimeBase second, TimeBase being a common  *)
(* multiple of the sample rates, so that every buffer duration             *)
(* (length / sampleRate seconds) is a whole number of units.               *)
(* The handlers run to completion on one JavaScript thread: each action    *)
(* below is one synchronous run of a handler (feed is split at its await). *)
(***************************************************************************)
EXTENDS Integers, Sequences, FiniteSets

\* ------------------------------------------------------------------ bounds
\* Feed calls that reach the decoder.
MaxFeeds == 2
\* Samples per channel in one decoded block.
MaxBlockLen == 2
\* The sink clock advances, one millisecond at a time, up to MaxClockMs ms.
MaxClockMs == 1

\* The sample rates (Hz) a decoder or a configuration may name, scaled down
\* from audio rates so that one flush interval holds a few samples; with
\* 1500 Hz a 1 ms interval holds 1.5 samples, the case floor() rounds.
SampleRates == {1000, 1500}
ChannelCounts == {1, 2}
\* option.flushingTime in ms: 0 makes a frame of no samples, 1 makes the
\* frame of 1500 Hz a rounded one, 2 makes frames of 2 and 3 samples.
FlushingTimes == {0, 1, 2}
\* The defaults of initOptions, the sample rate scaled like SampleRates.
DefaultChannels == 2
DefaultSampleRate == 1000
Levels == {0, 1}

\* Units of time per second: the least common multiple of the sample rates.
TimeBase ==
  CHOOSE n \in 1..(1000 * 1500) :
    /\ \A r \in SampleRates : n % r = 0
    /\ \A m \in 1..(n - 1) : \E r \in SampleRates : m % r # 0

\* One millisecond, in time units.
Millisecond == TimeBase \div 1000

\* The value of a field that was never assigned (`undefined`).
Undefined == -1

VARIABLES
  option,             \* this.option: channels, sampleRate, flushingTime
  samples,            \* this.samples: the interleaved backlog
  intervalActive,     \* the setInterval timer of intervalId is armed
  ctxState,           \* audioCtx.state: "running" or "closed"
  currentTime,        \* audioCtx.currentTime
  gain,               \* gainNode.gain.value
  startTime,          \* this.startTime: the virtual clock
  decoderState,       \* decoder.ready: "loading", "ready" or "failed"
  decodedSampleRate,  \* this._decodedSampleRate
  decodedChannels,    \* this._decodedChannels
  pending,            \* feed calls suspended at `await this.decoderReady`
  outcome,            \* how the last completed handler run ended: "ok",
                      \* "dropped" (feed returned at its argument check) or
                      \* the error it raised
  decoderThrew,       \* history: decodeFrame threw in the last handler run
  decodeCalls,        \* history: decodeFrame invocations
  fedCount,           \* history: samples decoded so far, per channel
  emitted,            \* history: the buffers handed to src.start, in order
  destroyed,          \* history: destroy has been called
  underrunSeen        \* history: some flush found no full frame

vars ==
  << option, samples, intervalActive, ctxState, currentTime, gain, startTime,
     decoderState, decodedSampleRate, decodedChannels, pending, outcome,
     decoderThrew, decodeCalls, fedCount, emitted, destroyed, underrunSeen >>

\* ------------------------------------------------------------ constructor
\* initOptions: the defaults overridden by the caller's options.
Options ==
  [channels : {DefaultChannels}, sampleRate : {DefaultSampleRate},
   flushingTime : FlushingTimes]

\* State after `new OpusPlayer(options)`: empty backlog, a fresh running
\* context whose clock the virtual clock copies, the timer armed, the
\* decoder still loading.
Init ==
  /\ option \in Options
  /\ samples = << >>
  /\ intervalActive = TRUE
  /\ ctxState = "running"
  /\ currentTime = 0
  /\ gain = 1
  /\ startTime = 0
  /\ decoderState = "loading"
  /\ decodedSampleRate = Undefined
  /\ decodedChannels = Undefined
  /\ pending = 0
  /\ outcome = "ok"
  /\ decoderThrew = FALSE
  /\ decodeCalls = 0
  /\ fedCount = [c \in 0..1 |-> 0]
  /\ emitted = << >>
  /\ destroyed = FALSE
  /\ underrunSeen = FALSE

\* ------------------------------------------------------------------- feed
\* The arguments feed is called with, by what isTypedArray looks at: a
\* typed array, null, an object without byteLength, and a view that is not
\* backed by an ArrayBuffer.
DataInputs ==
  { [truthy |-> TRUE, byteLengthType |-> "number", bufferClass |-> "ArrayBuffer"],
    [truthy |-> FALSE, byteLengthType |-> "undefined", bufferClass |-> "none"],
    [truthy |-> TRUE, byteLengthType |-> "undefined", bufferClass |-> "ArrayBuffer"],
    [truthy |-> TRUE, byteLengthType |-> "number", bufferClass |-> "SharedArrayBuffer"] }

\* Mutant: only the truthiness of the argument is checked.
isTypedArrayLoose(data) == data.truthy

\* isTypedArray(data)
isTypedArray(data) ==
  /\ data.truthy
  /\ data.byteLengthType = "number"
  /\ data.bufferClass = "ArrayBuffer"

\* What decoder.decodeFrame(packet) can do: throw, or return channelData
\* (channels arrays of len samples) and a sampleRate.
DecodeResults ==
  [throws : {TRUE}, sampleRate : {0}, channels : {0}, len : {0}]
  \cup
  [throws : {FALSE}, sampleRate : SampleRates, channels : ChannelCounts,
   len : 1..MaxBlockLen]

\* channelData of a decoded block: sample i of channel c is tagged with its
\* channel and its position among all the samples decoded for that channel.
ChannelData(r) ==
  [c1 \in 1..r.channels |->
    [i1 \in 1..r.len |-> [ch |-> c1 - 1, seq |-> fedCount[c1 - 1] + i1]]]

\* Mutant: the channels are laid out one after the other.
InterleavePlanar(channelData) ==
  LET ch == Len(channelData)
      len == Len(channelData[1])
  IN [k \in 1..(len * ch) |-> channelData[((k - 1) \div len) + 1][((k - 1) % len) + 1]]

\* The interleave loop of feed: inter[i * ch + c] = channelData[c][i].
Interleave(channelData) ==
  LET ch == Len(channelData)
      len == Len(channelData[1])
  IN [k \in 1..(len * ch) |-> channelData[((k - 1) % ch) + 1][((k - 1) \div ch) + 1]]

\* feed, up to the await: a non-conforming argument returns at once, any
\* other call suspends at `await this.decoderReady`.
FeedCall(data) ==
  /\ IF ~isTypedArray(data)
       THEN /\ outcome' = "dropped"
            /\ decoderThrew' = FALSE
            /\ UNCHANGED pending
       ELSE /\ pending + decodeCalls < MaxFeeds
            /\ pending' = pending + 1
            /\ UNCHANGED << outcome, decoderThrew >>
  /\ UNCHANGED << option, samples, intervalActive, ctxState, currentTime, gain,
                  startTime, decoderState, decodedSampleRate, decodedChannels,
                  decodeCalls, fedCount, emitted, destroyed, underrunSeen >>

\* Mutant: the exception is caught inside feed and ignored.
FeedSwallows(error) ==
  /\ outcome' = "ok"
  /\ UNCHANGED << samples, decodedSampleRate, decodedChannels, fedCount >>

\* An exception leaves feed: the promise feed returned rejects with it, and
\* nothing was assigned before the throwing statement.
FeedRejects(error) ==
  /\ outcome' = error
  /\ UNCHANGED << samples, decodedSampleRate, decodedChannels, fedCount >>

\* Mutant: every decode stores its format.
LatchAlways(field, value) == value

\* The latch of feed: the decoded format is stored only while none is.
Latch(field, value) == IF decodedSampleRate = Undefined THEN value ELSE field

\* Mutant: the new block is put in front of the backlog.
AppendBlockInFront(buf, inter) == inter \o buf

\* The append of feed: a new array holding the backlog, then the block.
AppendBlock(buf, inter) == buf \o inter

\* feed, from the await on: the oldest suspended call resumes once the
\* decoder's ready promise has settled.
FeedResume ==
  /\ pending > 0
  /\ decoderState # "loading"
  /\ pending' = pending - 1
  /\ IF decoderState = "failed"
       THEN /\ FeedRejects("ReadyRejected")
            /\ decoderThrew' = FALSE
            /\ UNCHANGED decodeCalls
       ELSE \E r \in DecodeResults :
              /\ decodeCalls' = decodeCalls + 1
              /\ decoderThrew' = r.throws
              /\ IF r.throws
                   THEN FeedRejects("DecodeError")
                   ELSE LET channelData == ChannelData(r)
                            inter == Interleave(channelData)
                        IN /\ decodedSampleRate' =
                                Latch(decodedSampleRate, r.sampleRate)
                           /\ decodedChannels' =
                                Latch(decodedChannels, Len(channelData))
                           /\ samples' = AppendBlock(samples, inter)
                           /\ fedCount' =
                                [c \in 0..1 |->
                                  IF c < r.channels THEN fedCount[c] + r.len
                                                    ELSE fedCount[c]]
                           /\ outcome' = "ok"
  /\ UNCHANGED << option, intervalActive, ctxState, currentTime, gain, startTime,
                  decoderState, emitted, destroyed, underrunSeen >>

\* ----------------------------------------------------------------- volume
Volume(level) ==
  /\ gain' = level
  /\ outcome' = "ok"
  /\ decoderThrew' = FALSE
  /\ UNCHANGED << option, samples, intervalActive, ctxState, currentTime,
                  startTime, decoderState, decodedSampleRate, decodedChannels,
                  pending, decodeCalls, fedCount, emitted, destroyed,
                  underrunSeen >>

\* ---------------------------------------------------------------- destroy
\* The fields of the player a caller can observe.
Player ==
  [samples |-> samples, intervalActive |-> intervalActive,
   ctxState |-> ctxState, startTime |-> startTime, gain |-> gain,
   decodedSampleRate |-> decodedSampleRate,
   decodedChannels |-> decodedChannels]

\* Mutant: the timer is left running.
destroyLeavesTimer(p) ==
  [p EXCEPT !.samples = << >>, !.ctxState = "closed"]

\* Mutant: the timer is toggled instead of cleared.
destroyTogglesTimer(p) ==
  [p EXCEPT !.intervalActive = ~p.intervalActive, !.samples = << >>,
            !.ctxState = "closed"]

\* Mutant: the virtual clock is reset as well.
destroyResetsClock(p) ==
  [p EXCEPT !.intervalActive = FALSE, !.samples = << >>,
            !.ctxState = "closed", !.startTime = 0]

\* destroy() on a player p: clearInterval, an empty backlog, audioCtx.close().
destroy(p) ==
  [p EXCEPT !.intervalActive = FALSE, !.samples = << >>, !.ctxState = "closed"]

Destroy ==
  /\ LET q == destroy(Player)
     IN /\ samples' = q.samples
        /\ intervalActive' = q.intervalActive
        /\ ctxState' = q.ctxState
        /\ startTime' = q.startTime
        /\ gain' = q.gain
        /\ decodedSampleRate' = q.decodedSampleRate
        /\ decodedChannels' = q.decodedChannels
  /\ destroyed' = TRUE
  /\ outcome' = "ok"
  /\ decoderThrew' = FALSE
  /\ UNCHANGED << option, currentTime, decoderState, pending, decodeCalls,
                  fedCount, emitted, underrunSeen >>

\* ------------------------------------------------------------------ flush
\* Mutant: the fallback is preferred to the value.
JsOrSwapped(a, b) == IF b = Undefined \/ b = 0 THEN a ELSE b

\* `a || b` on numbers: a unless it is undefined or 0.
JsOr(a, b) == IF a # Undefined /\ a # 0 THEN a ELSE b

EffectiveSampleRate == JsOr(decodedSampleRate, option.sampleRate)
EffectiveChannels == JsOr(decodedChannels, option.channels)

\* Mutant: the samples of one interval are rounded up.
FrameSamplesRoundedUp(sr) == (sr * option.flushingTime + 999) \div 1000

\* frameSamples = Math.floor((sr * flushingTime) / 1000)
FrameSamples(sr) == (sr * option.flushingTime) \div 1000
FrameSize == FrameSamples(EffectiveSampleRate) * EffectiveChannels

\* Mutant: one frame is held back.
FullFramesHoldsOneBack(len, frameSize) ==
  IF len <= frameSize THEN 0 ELSE len \div frameSize

\* Mutant: one frame per tick at most.
FullFramesAtMostOne(len, frameSize) == IF len >= frameSize THEN 1 ELSE 0

\* Mutant: the quotient is rounded up.
FullFramesCeil(len, frameSize) == (len + frameSize - 1) \div frameSize

\* fullFrames = Math.floor(this.samples.length / frameSize), frameSize > 0.
FullFrames(len, frameSize) == len \div frameSize

\* audioBuffer.duration = length / sampleRate seconds, in time units.
Duration(bufferLen, sr) == (bufferLen * TimeBase) \div sr

\* Mutant: the virtual clock is never moved up to the sink's clock.
ScheduleTimeUnclamped(st, now) == st

\* Mutant: every buffer is scheduled at the sink's clock.
ScheduleAtNow(st, now) == now

\* The start time flush schedules at: the virtual clock, moved up to the
\* sink's clock when it has fallen behind.
ScheduleTime(st, now) == IF st < now THEN now ELSE st

\* Mutant: the clock advances by one flush interval, whatever was emitted.
AdvancedByInterval(start, bufferLen, sr) ==
  start + option.flushingTime * Millisecond

\* this.startTime += audioBuffer.duration
AdvancedStartTime(start, bufferLen, sr) == start + Duration(bufferLen, sr)

\* A Float32Array read: past the end it yields undefined, stored as NaN.
NaN == [ch |-> -1, seq |-> 0]
ReadSample(idx) == IF idx <= Len(samples) THEN samples[idx] ELSE NaN

\* Mutant: readIdx starts at 0 for every channel.
DeinterleaveFromZero(channels, bufferLen) ==
  [c1 \in 1..channels |->
    [i1 \in 1..bufferLen |-> ReadSample((i1 - 1) * channels + 1)]]

\* The de-interleave loop of flush: chData[i] = samples[c + i * channels].
Deinterleave(channels, bufferLen) ==
  [c1 \in 1..channels |->
    [i1 \in 1..bufferLen |-> ReadSample((c1 - 1) + (i1 - 1) * channels + 1)]]

\* Mutant: the backlog is trimmed by the frames of one channel.
SubarrayPerChannel(begin) ==
  IF begin \div EffectiveChannels >= Len(samples)
    THEN << >>
    ELSE SubSeq(samples, (begin \div EffectiveChannels) + 1, Len(samples))

\* this.samples.subarray(totalSamples)
Subarray(begin) ==
  IF begin >= Len(samples) THEN << >> ELSE SubSeq(samples, begin + 1, Len(samples))

\* One run of flush.  With a frame size of 0 and an empty backlog
\* fullFrames is NaN and flush returns; with a frame size of 0 and a
\* backlog fullFrames is Infinity, bufferLen NaN, and createBuffer throws
\* on the length; nothing was assigned before that.
Flush ==
  LET sr == EffectiveSampleRate
      channels == EffectiveChannels
      frameSamples == FrameSamples(sr)
      frameSize == frameSamples * channels
  IN IF frameSize = 0 /\ samples # << >>
       THEN /\ outcome' = "NotSupportedError"
            /\ UNCHANGED << samples, startTime, emitted, underrunSeen >>
     ELSE IF frameSize = 0
       THEN /\ outcome' = "ok"
            /\ underrunSeen' = TRUE
            /\ UNCHANGED << samples, startTime, emitted >>
       ELSE LET fullFrames == FullFrames(Len(samples), frameSize)
                totalSamples == fullFrames * frameSize
                bufferLen == frameSamples * fullFrames
                start == ScheduleTime(startTime, currentTime)
            IN IF fullFrames = 0
                 THEN /\ outcome' = "ok"
                      /\ underrunSeen' = TRUE
                      /\ UNCHANGED << samples, startTime, emitted >>
                 ELSE /\ emitted' = Append(emitted,
                            [start |-> start,
                             now |-> currentTime,
                             sampleRate |-> sr,
                             channels |-> channels,
                             length |-> bufferLen,
                             fullFrames |-> fullFrames,
                             data |-> Deinterleave(channels, bufferLen)])
                      /\ startTime' = AdvancedStartTime(start, bufferLen, sr)
                      /\ samples' = Subarray(totalSamples)
                      /\ outcome' = "ok"
                      /\ UNCHANGED underrunSeen

\* Mutant: the timer task waits until no feed is in flight.
TimerTaskWaitsForFeeds == pending = 0

\* A timer task runs only when no promise reaction is queued, so not while
\* the continuation of a feed whose await has settled is waiting.
TimerTaskRunnable == ~(pending > 0 /\ decoderState # "loading")

\* The timer callback of the constructor's setInterval.
Tick ==
  /\ intervalActive
  /\ TimerTaskRunnable
  /\ Flush
  /\ decoderThrew' = FALSE
  /\ UNCHANGED << option, intervalActive, ctxState, currentTime, gain,
                  decoderState, decodedSampleRate, decodedChannels, pending,
                  decodeCalls, fedCount, destroyed >>

\* ------------------------------------------------------------ environment
\* The sink's clock runs while the context is open.
AdvanceClock ==
  /\ ctxState = "running"
  /\ currentTime < MaxClockMs * Millisecond
  /\ currentTime' = currentTime + Millisecond
  /\ UNCHANGED << option, samples, intervalActive, gain, startTime, ctxState,
                  decoderState, decodedSampleRate, decodedChannels, pending,
                  outcome, decoderThrew, decodeCalls, fedCount, emitted,
                  destroyed, underrunSeen >>

\* decoder.ready settles, once: resolved or rejected.
DecoderSettles(state) ==
  /\ decoderState = "loading"
  /\ decoderState' = state
  /\ UNCHANGED << option, samples, intervalActive, ctxState, currentTime, gain,
                  startTime, decodedSampleRate, decodedChannels, pending,
                  outcome, decoderThrew, decodeCalls, fedCount, emitted,
                  destroyed, underrunSeen >>

Next ==
  \/ \E data \in DataInputs : FeedCall(data)
  \/ FeedResume
  \/ \E level \in Levels : Volume(level)
  \/ Destroy
  \/ Tick
  \/ AdvanceClock
  \/ \E state \in {"ready", "failed"} : DecoderSettles(state)

Spec == Init /\ [][Next]_vars

\* The timer of setInterval keeps firing while it is active, and a queued
\* continuation of feed is run by the job queue.
FairSpec == Spec /\ WF_vars(Tick) /\ WF_vars(FeedResume)

\* ------------------------------------------------------------- properties
Max(a, b) == IF a >= b THEN a ELSE b

\* The duration of an emitted buffer, length / sampleRate seconds, and the
\* end of the interval it was scheduled on.
BufferDuration(e) == (e.length * TimeBase) \div e.sampleRate
End(e) == e.start + BufferDuration(e)

\* C1: every buffer handed to src.start has a start time that is not before
\* the sink's currentTime read by the flush that scheduled it.
NoStartBeforeNow ==
  \A n \in 1..Len(emitted) : emitted[n].start >= emitted[n].now

\* C1 witness: a buffer was scheduled by a flush that found the virtual
\* clock behind the sink's clock, after an earlier buffer had ended.
ClampedStartReached ==
  \E n \in 2..Len(emitted) :
    /\ emitted[n].now > End(emitted[n - 1])
    /\ emitted[n].start = emitted[n].now

\* The scheduled intervals of successive buffers do not overlap.
NoOverlap ==
  \A n \in 1..(Len(emitted) - 1) : emitted[n + 1].start >= End(emitted[n])

\* C2: in every step startTime does not decrease, and every two successive
\* emitted buffers satisfy start(n+1) >= start(n) + duration(n).
StartTimeMonotoneNoOverlap ==
  [][startTime' >= startTime /\ NoOverlap']_vars

\* C2 witness: a second buffer was queued ahead of the sink's clock, right
\* behind the first one.
QueuedAheadReached ==
  /\ Len(emitted) >= 2
  /\ emitted[2].start > emitted[2].now
  /\ startTime > currentTime

\* C3 as claimed: when no flush ever found the backlog below one frame,
\* successive buffers are exactly contiguous.
ContiguousWithoutUnderrun ==
  ~underrunSeen =>
    \A n \in 1..(Len(emitted) - 1) : emitted[n + 1].start = End(emitted[n])

\* C3 as amended: each buffer starts at the end of the one before it, or at
\* the sink's clock read by its flush when that clock has already passed
\* that end; so a late tick leaves a gap, with or without underrun.
ContiguousUnlessLate ==
  \A n \in 1..(Len(emitted) - 1) :
    emitted[n + 1].start = Max(End(emitted[n]), emitted[n + 1].now)

\* C3 witness: without any underrun, two buffers were scheduled back to
\* back while the sink's clock was running.
ContiguousPairReached ==
  /\ ~underrunSeen
  /\ Len(emitted) >= 2
  /\ emitted[2].start = End(emitted[1])
  /\ emitted[2].now > emitted[1].now

BacklogEmptyAfterDestroy == destroyed => samples = << >>

\* C6: once destroy has been called, no step is a flush and no buffer is
\* handed to the sink.
NoFlushAfterDestroy ==
  [][destroyed => (~Tick /\ emitted' = emitted)]_vars

\* C6 witness: after destroy, a full frame of data sits in the backlog.
FrameAfterDestroyReached ==
  /\ destroyed
  /\ ~intervalActive
  /\ FrameSize > 0
  /\ Len(samples) >= FrameSize

\* C7: in every reachable state, destroy applied twice leaves the player as
\* destroy applied once does.
DestroyIdempotent == destroy(destroy(Player)) = destroy(Player)

\* C7 witness: destroy has run on a player that had played and latched a
\* format, and its state is the one another destroy leaves.
DestroyedAfterPlaybackReached ==
  /\ destroyed
  /\ emitted # << >>
  /\ decodedSampleRate # Undefined
  /\ Player = destroy(Player)

\* C8: a feed whose decodeFrame call throws ends with that error, and
\* leaves the backlog, the virtual clock and the latched format as they
\* were.
DecodeErrorPropagates ==
  [][(decodeCalls' # decodeCalls /\ decoderThrew') =>
       /\ outcome' = "DecodeError"
       /\ UNCHANGED << samples, startTime, decodedSampleRate, decodedChannels >>
    ]_vars

\* C8 witness: a decode failed while the backlog held samples.
DecodeErrorReached ==
  /\ decoderThrew
  /\ outcome = "DecodeError"
  /\ samples # << >>

\* An argument that is no byte view: byteLength is not a number, or there
\* is no ArrayBuffer behind it.
NonConforming(data) ==
  \/ data.byteLengthType # "number"
  \/ data.bufferClass # "ArrayBuffer"

\* C9: a feed call with a non-conforming argument returns without an error,
\* suspends nothing, calls no decoder, and leaves the backlog, the format
\* and the virtual clock as they were.
MalformedFeedDropped ==
  [][\A data \in DataInputs :
       (NonConforming(data) /\ FeedCall(data)) =>
         /\ outcome' = "dropped"
         /\ pending' = pending
         /\ decodeCalls' = decodeCalls
         /\ UNCHANGED << samples, startTime, decodedSampleRate, decodedChannels >>
    ]_vars

\* C9 witness: a feed was dropped while the backlog held samples.
DroppedFeedReached ==
  /\ outcome = "dropped"
  /\ samples # << >>
  /\ pending = 0

\* C10: a flush that finds less than one frame in the backlog returns
\* without an error and changes neither the backlog, nor the virtual clock,
\* nor what was emitted.
UnderrunFlushIsNoop ==
  [][(Tick /\ Len(samples) < FrameSize) =>
       /\ outcome' = "ok"
       /\ UNCHANGED << samples, startTime, emitted >>
    ]_vars

\* C10 witness: a flush found a partial frame while the virtual clock was
\* behind the sink's clock, and the clock was not moved up.
UnderrunReached ==
  /\ underrunSeen
  /\ samples # << >>
  /\ Len(samples) < FrameSize
  /\ startTime < currentTime

\* Every block decoded so far had the latched channel count: each of its
\* channels received the same number of samples, the other channels none.
SameChannelCount ==
  /\ decodedChannels # Undefined
  /\ \A c \in 0..1 :
       fedCount[c] = IF c < decodedChannels THEN fedCount[0] ELSE 0

\* The interleaving of one block of `channels` channels holding the samples
\* first..last of every channel: index i * channels + c holds sample i of
\* channel c.
InterleavedRun(channels, first, last) ==
  [k \in 1..((last - first + 1) * channels) |->
    [ch |-> (k - 1) % channels, seq |-> first + ((k - 1) \div channels)]]

\* C11: while nothing was flushed or destroyed, the backlog built by any
\* number of feeds of blocks with one channel count is the interleaving of
\* the single block that concatenates them per channel.
ChunkingInvariance ==
  (SameChannelCount /\ emitted = << >> /\ ~destroyed) =>
    samples = InterleavedRun(decodedChannels, 1, fedCount[0])

\* C11 witness: two stereo blocks of different lengths were fed and nothing
\* was flushed.
TwoChunksFedReached ==
  /\ SameChannelCount
  /\ emitted = << >>
  /\ ~destroyed
  /\ decodedChannels = 2
  /\ decodeCalls = 2
  /\ Len(samples) = 6

\* C12: once a decode has latched the format no step changes it, and the
\* first successful decode latches it.
FormatLatchedOnce ==
  [][/\ decodedSampleRate # Undefined =>
          UNCHANGED << decodedSampleRate, decodedChannels >>
     /\ (decodedSampleRate = Undefined /\ fedCount' # fedCount) =>
          /\ decodedSampleRate' \in SampleRates
          /\ decodedChannels' = Cardinality({c \in 0..1 : fedCount'[c] > 0})
    ]_vars

\* C12 witness: after the latch a block with another channel count was
\* decoded, and the player was flushed and destroyed.
MismatchedBlockReached ==
  /\ decodedChannels = 1
  /\ fedCount[1] > 0
  /\ emitted # << >>
  /\ destroyed

\* The backlog is in interleaved order for `channels` channels.
InterleavedOrder(channels) ==
  /\ Len(samples) % channels = 0
  /\ \A k \in 1..Len(samples) : samples[k].ch = (k - 1) % channels

\* C13 as claimed: in every state the backlog is in interleaved order for
\* the effective channel count.
BacklogInterleavedAlways == InterleavedOrder(EffectiveChannels)

\* C13 as amended: the backlog is in interleaved order for the latched
\* channel count as long as every decoded block had that channel count,
\* and it is empty while no format is latched.
BacklogInterleavedWhenMatching ==
  /\ decodedChannels = Undefined => samples = << >>
  /\ SameChannelCount => InterleavedOrder(decodedChannels)

\* C13 witness: a stereo stream was flushed and holds samples again.
StereoBacklogAfterFlushReached ==
  /\ SameChannelCount
  /\ decodedChannels = 2
  /\ emitted # << >>
  /\ samples # << >>

\* Channel c of everything emitted so far, in emission order.
RECURSIVE EmittedChannel(_, _)
EmittedChannel(c, n) ==
  IF n = 0 THEN << >>
  ELSE EmittedChannel(c, n - 1) \o
         (IF c < emitted[n].channels THEN emitted[n].data[c + 1] ELSE << >>)

\* Channel c of the backlog, read as flush reads it.
BacklogChannel(c, channels) ==
  [i \in 1..(Len(samples) \div channels) |-> samples[(i - 1) * channels + c + 1]]

\* All the samples decoded for channel c, in decode order.
DecodedChannel(c) == [i \in 1..fedCount[c] |-> [ch |-> c, seq |-> i]]

\* C14: before destroy and with blocks of the latched channel count, for
\* every channel the emitted samples followed by those of the backlog are
\* the decoded samples, in order.
SamplesConserved ==
  (SameChannelCount /\ ~destroyed) =>
    \A c \in 0..(decodedChannels - 1) :
      EmittedChannel(c, Len(emitted)) \o BacklogChannel(c, decodedChannels)
        = DecodedChannel(c)

\* C14 witness: a stereo stream with samples both emitted and waiting.
EmittedAndWaitingReached ==
  /\ SameChannelCount
  /\ ~destroyed
  /\ decodedChannels = 2
  /\ decodeCalls = 2
  /\ emitted # << >>
  /\ samples # << >>

\* C15: an emitting flush of a backlog of length L and frame size F takes
\* (L div F) * F samples off the front, emits frameSamples * (L div F)
\* frames in every channel, and leaves the last L mod F samples in order.
EmittingFlushTrimsFrames ==
  [][(Tick /\ emitted' # emitted) =>
       LET L == Len(samples)
           F == FrameSize
           k == L \div F
           e == emitted'[Len(emitted')]
       IN /\ Len(emitted') = Len(emitted) + 1
          /\ Len(samples') = L % F
          /\ samples' = [i \in 1..(L % F) |-> samples[k * F + i]]
          /\ e.length = ((EffectiveSampleRate * option.flushingTime) \div 1000) * k
          /\ \A c \in 1..e.channels : Len(e.data[c]) = e.length
    ]_vars

\* C15 witness: an emission of two samples per channel left a remainder
\* below one frame.
RemainderKeptReached ==
  /\ Len(emitted) = 1
  /\ emitted[1].length = 2
  /\ samples # << >>
  /\ Len(samples) < FrameSize
  /\ decodeCalls = 2
  /\ emitted[1].length * emitted[1].channels + Len(samples)
       = fedCount[0] + fedCount[1]

FrameReady ==
  /\ ~destroyed
  /\ FrameSize > 0
  /\ Len(samples) >= FrameSize

\* C17: with the timer firing and no destroy, a backlog that holds at least
\* one full frame is eventually flushed down to less than one frame, so
\* its full frames are eventually emitted.
FullFrameEventuallyEmitted ==
  FrameReady ~> (destroyed \/ Len(samples) < FrameSize)

\* C17 witness: after an underrun, frames were emitted and nothing but a
\* partial frame is left, without destroy.
RecoveredFromUnderrunReached ==
  /\ underrunSeen
  /\ ~destroyed
  /\ emitted # << >>
  /\ emitted[1].now > 0
  /\ FrameSize > 0
  /\ Len(samples) < FrameSize

StartTimeOwnedByFlush ==
  [][/\ startTime' # startTime => (Tick /\ Len(emitted') = Len(emitted) + 1)
     /\ (\/ \E data \in DataInputs : FeedCall(data)
         \/ FeedResume
         \/ \E level \in Levels : Volume(level)
         \/ Destroy) => UNCHANGED startTime
    ]_vars

\* C19 witness: after the virtual clock had moved, volume, destroy and a
\* feed acted.
ClockKeptAfterDestroyReached ==
  /\ startTime > 0
  /\ destroyed
  /\ gain = 0
  /\ samples # << >>

====
